---------------------------- MODULE Spec2Model ----------------------------
(***************************************************************************)
(* Model of sprach.py, the Swiss German dialect CLI: the menu loop (main), *)
(* canton selection (choose_canton), the translation quiz                  *)
(* (translation_mode), the nearest-dialect classification (test_mode) and  *)
(* the string distance (naive_distance).                                   *)
(*                                                                         *)
(* A Python str is a sequence of one-character strings.  The two non-ASCII *)
(* characters of the dictionary are written as the atoms "a_uml" (a with   *)
(* diaeresis) and "rsquo" (right single quotation mark); both are left     *)
(* alone by str.lower() and are not whitespace.                            *)
(***************************************************************************)
EXTENDS Integers, Sequences, FiniteSets, TLC

VARIABLES
    pc,                 \* position of main: "menu", "test" (input loop of test_mode), "exited"
    current_canton,     \* main's current_canton
    DIALECT_DICTIONARY, \* the module-level dictionary, in insertion order
    user_sentences,     \* test_mode's user_sentences
    canton_scores,      \* test_mode's canton_scores as printed by the latest call
    best_canton,        \* test_mode's best_canton as printed by the latest call
    out,                \* kind of the last message a handler printed
    shown,              \* translation_mode: the (sentence, echoed input) pairs printed
    prev,               \* history: one earlier completed classification run
    replaced,           \* history: the selection the latest choose_canton call replaced
    str1, str2,         \* arguments of a direct naive_distance call
    dist12, dist21      \* values returned so far by naive_distance(str1, str2) and (str2, str1)

vars == <<pc, current_canton, DIALECT_DICTIONARY, user_sentences, canton_scores,
          best_canton, out, shown, prev, replaced, str1, str2, dist12, dist21>>

-----------------------------------------------------------------------------
(* Bounds *)

\* longest argument of a direct naive_distance call
MaxLen == 3

\* most sentences entered in one test_mode call
MaxSentences == 2

-----------------------------------------------------------------------------
(* Values *)

\* Python's None
None == "None"

\* float('inf'), the only non-integer number the program uses
INF == -1

\* score mapping / run record before any run
NoScores == <<>>

NoRun == [sentences |-> <<>>, scores |-> NoScores, best |-> None]

-----------------------------------------------------------------------------
(* The static data *)

RealDictionary ==
    << [canton |-> "Zurich",
        translations |-> << <<"W", "i", "e", "m", "e", "r", " ", "g", "a", "h", "t", "s", " ", "d", "i", "r", "?">>,
                            <<"I", "c", "h", " ", "h", "a", " ", "g", "a_uml", "r", "n", " ", "P", "i", "z", "z", "a", " ", "a_uml", "s", "s", "e", ".">> >>],
       [canton |-> "Bern",
        translations |-> << <<"W", "i", "e", " ", "g", "e", "i", "t", "rsquo", "s", " ", "d", "e", "r", "?">>,
                            <<"I", " ", "h", "a", " ", "g", "a_uml", "r", "n", " ", "P", "i", "z", "z", "a", " ", "a_uml", "s", "s", "a_uml", ".">> >>],
       [canton |-> "Basel",
        translations |-> << <<"W", "i", "a", " ", "g", "o", "o", "t", "s", " ", "d", "i", "r", "?">>,
                            <<"I", " ", "m", "a", "g", " ", "g", "a_uml", "r", "n", " ", "P", "i", "z", "z", "a", " ", "a_uml", "s", "s", "e", ".">> >>] >>

HIGH_GERMAN_SENTENCES ==
    << <<"H", "o", "w", " ", "a", "r", "e", " ", "y", "o", "u", "?">>,
       <<"I", " ", "l", "i", "k", "e", " ", "e", "a", "t", "i", "n", "g", " ", "p", "i", "z", "z", "a", ".">> >>

-----------------------------------------------------------------------------
(* Python built-ins used by the program *)

UpperCase ==
    <<"A", "B", "C", "D", "E", "F", "G", "H", "I", "J", "K", "L", "M",
      "N", "O", "P", "Q", "R", "S", "T", "U", "V", "W", "X", "Y", "Z">>

LowerCase ==
    <<"a", "b", "c", "d", "e", "f", "g", "h", "i", "j", "k", "l", "m",
      "n", "o", "p", "q", "r", "s", "t", "u", "v", "w", "x", "y", "z">>

UpperSet == {UpperCase[i] : i \in 1..Len(UpperCase)}

LowerOf == [c \in UpperSet |-> LowerCase[CHOOSE i \in 1..Len(UpperCase) : UpperCase[i] = c]]

LowerChar(c) == IF c \in UpperSet THEN LowerOf[c] ELSE c

\* str.lower()
Lower(s) == [i \in 1..Len(s) |-> LowerChar(s[i])]

IsSpace(c) == c \in {" ", "\t"}

RECURSIVE LStrip(_)
LStrip(s) == IF s /= <<>> /\ IsSpace(Head(s)) THEN LStrip(Tail(s)) ELSE s

RECURSIVE RStrip(_)
RStrip(s) ==
    IF s /= <<>> /\ IsSpace(s[Len(s)]) THEN RStrip(SubSeq(s, 1, Len(s) - 1)) ELSE s

\* str.strip()
Strip(s) == RStrip(LStrip(s))

Digits == <<"0", "1", "2", "3", "4", "5", "6", "7", "8", "9">>

IsDigit(c) == \E i \in 1..Len(Digits) : Digits[i] = c

DigitValue(c) == (CHOOSE i \in 1..Len(Digits) : Digits[i] = c) - 1

RECURSIVE DigitsValue(_, _)
DigitsValue(s, acc) ==
    IF s = <<>> THEN acc ELSE DigitsValue(Tail(s), 10 * acc + DigitValue(Head(s)))

\* int(s) for a stripped s without underscores: an optional sign and at least
\* one decimal digit, anything else raises ValueError (ok = FALSE)
ParseInt(s) ==
    LET signed == s /= <<>> /\ Head(s) \in {"+", "-"}
        body   == IF signed THEN Tail(s) ELSE s
        sign   == IF signed /\ Head(s) = "-" THEN -1 ELSE 1
    IN  IF body /= <<>> /\ \A i \in 1..Len(body) : IsDigit(body[i])
        THEN [ok |-> TRUE, value |-> sign * DigitsValue(body, 0)]
        ELSE [ok |-> FALSE, value |-> 0]

Abs(n) == IF n < 0 THEN -n ELSE n

Min(a, b) == IF b < a THEN b ELSE a

Max(a, b) == IF b > a THEN b ELSE a

\* a < b on numbers that may be float('inf')
FLess(a, b) == IF a = INF THEN FALSE ELSE IF b = INF THEN TRUE ELSE a < b

\* min(a, b): the first argument unless the second is smaller
FMin(a, b) == IF FLess(b, a) THEN b ELSE a

\* a + b on numbers that may be float('inf')
FAdd(a, b) == IF a = INF \/ b = INF THEN INF ELSE a + b

-----------------------------------------------------------------------------
(* naive_distance *)

\* the for loop over the overlapping range, i is the 1-based position
RECURSIVE MismatchLoop(_, _, _, _)
MismatchLoop(s1, s2, i, distance) ==
    IF i > Min(Len(s1), Len(s2))
    THEN distance
    ELSE MismatchLoop(s1, s2, i + 1,
                      IF s1[i] /= s2[i] THEN distance + 1 ELSE distance)

naive_distance_no_length(s1, s2) == MismatchLoop(s1, s2, 1, 0)

naive_distance_no_abs(s1, s2) == MismatchLoop(s1, s2, 1, 0) + (Len(s1) - Len(s2))

naive_distance(s1, s2) == MismatchLoop(s1, s2, 1, 0) + Abs(Len(s1) - Len(s2))

-----------------------------------------------------------------------------
(* test_mode: the scoring *)

Cantons == [i \in 1..Len(DIALECT_DICTIONARY) |-> DIALECT_DICTIONARY[i].canton]

CantonSet == {Cantons[i] : i \in 1..Len(Cantons)}

LocalDistanceRawInput(user_text, sample_sentence) ==
    naive_distance(user_text, Lower(sample_sentence))

\* dist = naive_distance(user_text.lower(), sample_sentence.lower())
LocalDistance(user_text, sample_sentence) ==
    naive_distance(Lower(user_text), Lower(sample_sentence))

KeepLast(best_local_distance, dist) == dist

\* best_local_distance = min(best_local_distance, dist)
KeepBest(best_local_distance, dist) == FMin(best_local_distance, dist)

\* the loop over translations.values(), from best_local_distance = inf
RECURSIVE BestLocalLoop(_, _, _, _)
BestLocalLoop(user_text, translations, k, best_local_distance) ==
    IF k > Len(translations)
    THEN best_local_distance
    ELSE BestLocalLoop(user_text, translations, k + 1,
                       KeepBest(best_local_distance,
                                LocalDistance(user_text, translations[k])))

Overwrite(score, best_local_distance) == best_local_distance

\* canton_scores[canton] += best_local_distance
Accumulate(score, best_local_distance) == FAdd(score, best_local_distance)

\* the loop over DIALECT_DICTIONARY.items() for one user sentence
RECURSIVE CantonLoop(_, _, _)
CantonLoop(scores, user_text, k) ==
    IF k > Len(DIALECT_DICTIONARY)
    THEN scores
    ELSE LET canton == DIALECT_DICTIONARY[k].canton
             best   == BestLocalLoop(user_text, DIALECT_DICTIONARY[k].translations, 1, INF)
         IN  CantonLoop([scores EXCEPT ![canton] = Accumulate(@, best)], user_text, k + 1)

\* the loop over user_sentences
RECURSIVE SentenceLoop(_, _, _)
SentenceLoop(scores, sentences, j) ==
    IF j > Len(sentences)
    THEN scores
    ELSE SentenceLoop(CantonLoop(scores, sentences[j], 1), sentences, j + 1)

CarriedScores ==
    IF prev /= NoRun THEN prev.scores ELSE [c \in CantonSet |-> 0]

\* canton_scores = {c: 0 for c in DIALECT_DICTIONARY.keys()}
FreshScores == [c \in CantonSet |-> 0]

IsBetterOrEqual(score, best_score) == ~FLess(best_score, score)

\* if score < best_score
IsBetter(score, best_score) == FLess(score, best_score)

\* the scan for the smallest cumulative distance, from (None, inf)
RECURSIVE BestScan(_, _, _, _)
BestScan(scores, k, best, best_score) ==
    IF k > Len(Cantons)
    THEN best
    ELSE IF IsBetter(scores[Cantons[k]], best_score)
         THEN BestScan(scores, k + 1, Cantons[k], scores[Cantons[k]])
         ELSE BestScan(scores, k + 1, best, best_score)

NeverEmpty(sentences) == FALSE

\* if not user_sentences
NoSentences(sentences) == sentences = <<>>

-----------------------------------------------------------------------------
(* choose_canton and translation_mode *)

choose_canton_keeps_selection(choice) ==
    LET parsed == ParseInt(Strip(choice))
        index  == parsed.value - 1
    IN  IF ~parsed.ok
        THEN [canton |-> current_canton, msg |-> "invalid_input"]
        ELSE IF 0 <= index /\ index < Len(Cantons)
             THEN [canton |-> Cantons[index + 1], msg |-> "selected"]
             ELSE [canton |-> current_canton, msg |-> "invalid_number"]

\* the value choose_canton returns and the message it prints for one input line
choose_canton(choice) ==
    LET parsed == ParseInt(Strip(choice))
        index  == parsed.value - 1
    IN  IF ~parsed.ok
        THEN [canton |-> "", msg |-> "invalid_input"]
        ELSE IF 0 <= index /\ index < Len(Cantons)
             THEN [canton |-> Cantons[index + 1], msg |-> "selected"]
             ELSE [canton |-> "", msg |-> "invalid_number"]

\* what translation_mode prints, given one input line per reference sentence
translation_mode(canton, inputs) ==
    IF canton = ""
    THEN [msg |-> "no_canton", shown |-> <<>>]
    ELSE [msg |-> "translation",
          shown |-> [i \in 1..Len(HIGH_GERMAN_SENTENCES) |->
                        [sentence |-> HIGH_GERMAN_SENTENCES[i], said |-> inputs[i]]]]

-----------------------------------------------------------------------------
(* Input lines *)

\* lines typed at "Enter your choice: "
MenuInputs ==
    { <<"1">>,
      <<"2">>,
      <<" ", "3", " ">>,
      <<"4">>,
      <<"x">>,
      <<>> }

\* lines typed at "Select a canton by number: "
CantonInputs ==
    { <<"1">>,
      <<"2">>,
      <<" ", "3", " ">>,
      <<"0">>,
      <<"4">>,
      <<"-", "1">>,
      <<"x">> }

\* lines typed at "Your dialect translation: "
TranslationInputs ==
    { <<>>,
      <<"h", "o", "i">> }

\* lines typed at "> " in test mode
TestInputs ==
    { <<>>,
      <<"e", "x", "i", "t">>,
      <<" ", "E", "x", "i", "t", " ">>,
      <<"w", "i", "e">>,
      <<" ", "W", "I", "E", "M", "E", "R">>,
      <<"w", "i", "e", "m", "e", "r", " ">> }

ExitWord == <<"e", "x", "i", "t">>

\* characters of the arguments of a direct naive_distance call
DistAlphabet == {"w", "i", "W"}

DistStrings == UNION {[1..n -> DistAlphabet] : n \in 0..MaxLen}

\* the dictionary of the classification scenario
ScenarioDictionary ==
    << [canton |-> "Zurich", translations |-> << <<"w", "i", "e", "m", "e", "r">> >>],
       [canton |-> "Bern",   translations |-> << <<"w", "i", "e">> >>] >>

\* dictionaries in which a canton has no sample sentence
BernEmptyDictionary ==
    << [canton |-> "Zurich", translations |-> << <<"w", "i", "e", "m", "e", "r">> >>],
       [canton |-> "Bern",   translations |-> << >>] >>

AllEmptyDictionary ==
    << [canton |-> "Zurich", translations |-> << >>],
       [canton |-> "Bern",   translations |-> << >>] >>

-----------------------------------------------------------------------------
(* The state machine *)

InitWith(dictionary) ==
    /\ pc = "menu"
    /\ current_canton = ""
    /\ DIALECT_DICTIONARY = dictionary
    /\ user_sentences = <<>>
    /\ canton_scores = NoScores
    /\ best_canton = None
    /\ out = "start"
    /\ shown = <<>>
    /\ prev = NoRun
    /\ replaced = ""
    /\ str1 = <<>>
    /\ str2 = <<>>
    /\ dist12 = <<>>
    /\ dist21 = <<>>

Init == InitWith(RealDictionary)

InitScenario ==
    \E d \in {RealDictionary, ScenarioDictionary} : InitWith(d)

InitMalformed ==
    \E d \in {BernEmptyDictionary, AllEmptyDictionary} : InitWith(d)

InitDist ==
    /\ pc = "menu"
    /\ current_canton = ""
    /\ DIALECT_DICTIONARY = RealDictionary
    /\ user_sentences = <<>>
    /\ canton_scores = NoScores
    /\ best_canton = None
    /\ out = "start"
    /\ shown = <<>>
    /\ prev = NoRun
    /\ replaced = ""
    /\ str1 \in DistStrings
    /\ str2 \in DistStrings
    /\ dist12 = <<>>
    /\ dist21 = <<>>

\* the run whose report is on the screen
LastRun ==
    [sentences |-> user_sentences, scores |-> canton_scores, best |-> best_canton]

\* history: a completed run may be remembered when the next menu choice is made
Remember == prev' \in (IF out = "result" THEN {prev, LastRun} ELSE {prev})

\* the locals of a returned test_mode call are gone
NoReport ==
    /\ user_sentences' = <<>>
    /\ canton_scores' = NoScores
    /\ best_canton' = None

DistUnchanged == UNCHANGED <<str1, str2, dist12, dist21>>

\* main, choice "1": current_canton = choose_canton()
ChooseCantonStep ==
    /\ pc = "menu"
    /\ \E m \in MenuInputs :
         /\ Strip(m) = <<"1">>
         /\ \E choice \in CantonInputs :
              /\ current_canton' = choose_canton(choice).canton
              /\ out' = choose_canton(choice).msg
    /\ replaced' = current_canton
    /\ shown' = <<>>
    /\ NoReport
    /\ Remember
    /\ DistUnchanged
    /\ UNCHANGED <<pc, DIALECT_DICTIONARY>>

\* main, choice "2": translation_mode(current_canton)
TranslationStep ==
    /\ pc = "menu"
    /\ \E m \in MenuInputs :
         /\ Strip(m) = <<"2">>
         /\ \E inputs \in [1..Len(HIGH_GERMAN_SENTENCES) -> TranslationInputs] :
              /\ out' = translation_mode(current_canton, inputs).msg
              /\ shown' = translation_mode(current_canton, inputs).shown
    /\ NoReport
    /\ Remember
    /\ replaced' = ""
    /\ DistUnchanged
    /\ UNCHANGED <<pc, current_canton, DIALECT_DICTIONARY>>

\* main, choice "3": test_mode() up to its first prompt
TestBegin ==
    /\ pc = "menu"
    /\ \E m \in MenuInputs : Strip(m) = <<"3">>
    /\ pc' = "test"
    /\ out' = "test_prompt"
    /\ shown' = <<>>
    /\ NoReport
    /\ Remember
    /\ replaced' = ""
    /\ DistUnchanged
    /\ UNCHANGED <<current_canton, DIALECT_DICTIONARY>>

\* test_mode: one iteration of the input loop that does not break
TestReadLine ==
    /\ pc = "test"
    /\ \E line \in TestInputs :
         LET text == Strip(line)
         IN  /\ Lower(text) /= ExitWord
             /\ IF text /= <<>>
                THEN /\ Len(user_sentences) < MaxSentences
                     /\ user_sentences' = Append(user_sentences, text)
                ELSE user_sentences' = user_sentences
    /\ DistUnchanged
    /\ UNCHANGED <<pc, current_canton, DIALECT_DICTIONARY, canton_scores,
                   best_canton, out, shown, prev, replaced>>

\* test_mode: the line "exit", then the scoring and the report
TestExit ==
    /\ pc = "test"
    /\ \E line \in TestInputs : Lower(Strip(line)) = ExitWord
    /\ IF NoSentences(user_sentences)
       THEN /\ out' = "no_sentences"
            /\ canton_scores' = NoScores
            /\ best_canton' = None
       ELSE LET scores == SentenceLoop(FreshScores, user_sentences, 1)
            IN  /\ out' = "result"
                /\ canton_scores' = scores
                /\ best_canton' = BestScan(scores, 1, None, INF)
    /\ pc' = "menu"
    /\ DistUnchanged
    /\ UNCHANGED <<current_canton, DIALECT_DICTIONARY, user_sentences, shown, prev, replaced>>

\* main, choice "4": sys.exit(0)
QuitStep ==
    /\ pc = "menu"
    /\ \E m \in MenuInputs : Strip(m) = <<"4">>
    /\ pc' = "exited"
    /\ out' = "goodbye"
    /\ shown' = <<>>
    /\ NoReport
    /\ Remember
    /\ replaced' = ""
    /\ DistUnchanged
    /\ UNCHANGED <<current_canton, DIALECT_DICTIONARY>>

\* main, any other choice
InvalidChoiceStep ==
    /\ pc = "menu"
    /\ \E m \in MenuInputs : Strip(m) \notin {<<"1">>, <<"2">>, <<"3">>, <<"4">>}
    /\ out' = "invalid_choice"
    /\ shown' = <<>>
    /\ NoReport
    /\ Remember
    /\ replaced' = ""
    /\ DistUnchanged
    /\ UNCHANGED <<pc, current_canton, DIALECT_DICTIONARY>>

Next ==
    \/ ChooseCantonStep
    \/ TranslationStep
    \/ TestBegin
    \/ TestReadLine
    \/ TestExit
    \/ QuitStep
    \/ InvalidChoiceStep

Spec == Init /\ [][Next]_vars

\* the same program over the scenario dictionary as well
SpecScenario == InitScenario /\ [][Next]_vars

\* the same program over dictionaries with a canton without sentences
SpecMalformed == InitMalformed /\ [][Next]_vars

\* naive_distance(str1, str2)
CallDistance ==
    /\ dist12 = <<>>
    /\ dist12' = <<naive_distance(str1, str2)>>
    /\ UNCHANGED <<pc, current_canton, DIALECT_DICTIONARY, user_sentences,
                   canton_scores, best_canton, out, shown, prev, replaced, str1, str2, dist21>>

\* naive_distance(str2, str1)
CallDistanceSwapped ==
    /\ dist21 = <<>>
    /\ dist21' = <<naive_distance(str2, str1)>>
    /\ UNCHANGED <<pc, current_canton, DIALECT_DICTIONARY, user_sentences,
                   canton_scores, best_canton, out, shown, prev, replaced, str1, str2, dist12>>

NextDist == CallDistance \/ CallDistanceSwapped

\* direct calls of naive_distance on all argument pairs
SpecDist == InitDist /\ [][NextDist]_vars

-----------------------------------------------------------------------------
(* Definitions used to state the properties *)

\* all distances of one sentence to the sample sentences of the k-th canton
DistancesTo(text, k) ==
    {naive_distance(Lower(text), Lower(DIALECT_DICTIONARY[k].translations[i])) :
        i \in 1..Len(DIALECT_DICTIONARY[k].translations)}

MinimumOf(D) == CHOOSE d \in D : \A e \in D : d <= e

RECURSIVE SumOfMinima(_, _)
SumOfMinima(sentences, k) ==
    IF sentences = <<>>
    THEN 0
    ELSE MinimumOf(DistancesTo(Head(sentences), k)) + SumOfMinima(Tail(sentences), k)

Wiemer == <<"w", "i", "e", "m", "e", "r">>

SameUpToCase(a, b) ==
    /\ Len(a) = Len(b)
    /\ \A i \in 1..Len(a) : Lower(a[i]) = Lower(b[i])

IsPermutationOf(a, b) ==
    /\ Len(a) = Len(b)
    /\ \E f \in Permutations(1..Len(a)) : b = [i \in 1..Len(a) |-> a[f[i]]]

SameResultAsPrev ==
    /\ canton_scores = prev.scores
    /\ best_canton = prev.best

NoSharedPosition(a, b) ==
    \A i \in 1..Min(Len(a), Len(b)) : a[i] /= b[i]

SomeCantonEmpty ==
    \E k \in 1..Len(DIALECT_DICTIONARY) : DIALECT_DICTIONARY[k].translations = <<>>

ChooseMessages == {"selected", "invalid_number", "invalid_input"}

InvalidSelection == {"invalid_number", "invalid_input"}

-----------------------------------------------------------------------------
(* Properties *)

TypeOK ==
    /\ pc \in {"menu", "test", "exited"}
    /\ Len(user_sentences) <= MaxSentences

\* C1: after a run with a non-empty list of sentences, the score reported for
\* every canton is the sum over the sentences of the minimum distance between
\* the lower-cased sentence and the lower-cased sample sentences of the canton;
\* over the scenario dictionary the input [wiemer] gives Zurich 0, Bern 3 and
\* best Zurich.
C1_ScoreIsSumOfMinima ==
    out = "result" =>
        /\ user_sentences /= <<>>
        /\ DOMAIN canton_scores = CantonSet
        /\ \A k \in 1..Len(DIALECT_DICTIONARY) :
              canton_scores[DIALECT_DICTIONARY[k].canton] = SumOfMinima(user_sentences, k)
        /\ (DIALECT_DICTIONARY = ScenarioDictionary /\ user_sentences = <<Wiemer>>) =>
              /\ canton_scores["Zurich"] = 0
              /\ canton_scores["Bern"] = 3
              /\ best_canton = "Zurich"

C1_Witness ==
    /\ out = "result"
    /\ DIALECT_DICTIONARY = ScenarioDictionary
    /\ user_sentences = <<Wiemer>>

\* C2: the reported best canton has a score no larger than any other canton's,
\* and every canton before it in dictionary order has a strictly larger score
\* (the first minimum wins).
C2_BestIsFirstMinimum ==
    out = "result" =>
        \E k \in 1..Len(Cantons) :
            /\ best_canton = Cantons[k]
            /\ \A j \in 1..Len(Cantons) :
                  canton_scores[Cantons[k]] <= canton_scores[Cantons[j]]
            /\ \A j \in 1..(k - 1) :
                  canton_scores[Cantons[k]] < canton_scores[Cantons[j]]

C2_Witness ==
    /\ out = "result"
    /\ \E c \in CantonSet :
          /\ c /= best_canton
          /\ canton_scores[c] = canton_scores[best_canton]

\* C3: when test mode is left with no sentence entered, it reports the
\* empty-input outcome, computes no score and no best canton, and the program
\* is back at the menu, not terminated.
C3_EmptyInputReturnsToMenu ==
    [][(pc = "test" /\ pc' /= "test" /\ user_sentences = <<>>) =>
          /\ out' = "no_sentences"
          /\ canton_scores' = NoScores
          /\ best_canton' = None
          /\ pc' = "menu"]_vars

C3_Witness ==
    /\ out = "no_sentences"
    /\ pc = "menu"
    /\ user_sentences = <<>>
    /\ canton_scores = NoScores

C5_DistanceIsLengthDifference ==
    (dist12 /= <<>> /\ NoSharedPosition(str1, str2)) =>
        dist12[1] = Abs(Len(str1) - Len(str2))

\* C5 amended: when the two strings differ at every overlapping position, the
\* distance is the larger of the two lengths; it is the length difference when
\* one of the strings is empty.
C5_DistanceIsLongerLength ==
    (dist12 /= <<>> /\ NoSharedPosition(str1, str2)) =>
        /\ dist12[1] = Max(Len(str1), Len(str2))
        /\ (str1 = <<>> \/ str2 = <<>>) => dist12[1] = Abs(Len(str1) - Len(str2))

C5_Witness ==
    /\ dist12 /= <<>>
    /\ NoSharedPosition(str1, str2)
    /\ Len(str1) > 0
    /\ Len(str2) > Len(str1)

\* C6: the distance of two strings is the same in both argument orders.
C6_DistanceIsSymmetric ==
    (dist12 /= <<>> /\ dist21 /= <<>>) => dist12[1] = dist21[1]

C6_Witness ==
    /\ dist12 /= <<>>
    /\ dist21 /= <<>>
    /\ Len(str1) /= Len(str2)
    /\ ~NoSharedPosition(str1, str2)

\* C7: two runs whose sentences differ only in letter case report the same
\* score for every canton and the same best canton.
C7_CaseInsensitive ==
    (out = "result" /\ prev /= NoRun /\ SameUpToCase(prev.sentences, user_sentences)) =>
        SameResultAsPrev

C7_Witness ==
    /\ out = "result"
    /\ prev /= NoRun
    /\ SameUpToCase(prev.sentences, user_sentences)
    /\ prev.sentences /= user_sentences

\* C8: two runs whose sentence lists are permutations of each other report the
\* same score for every canton and the same best canton.
C8_OrderIrrelevant ==
    (out = "result" /\ prev /= NoRun /\ IsPermutationOf(prev.sentences, user_sentences)) =>
        SameResultAsPrev

C8_Witness ==
    /\ out = "result"
    /\ prev /= NoRun
    /\ IsPermutationOf(prev.sentences, user_sentences)
    /\ prev.sentences /= user_sentences
    /\ ~SameUpToCase(prev.sentences, user_sentences)

\* C9: a run with the same sentences as an earlier run reports the same scores
\* and the same best canton whatever happened in between, and no step changes
\* the dictionary.
C9_RepeatedRunIsEqual ==
    /\ []((out = "result" /\ prev /= NoRun /\ prev.sentences = user_sentences) =>
            SameResultAsPrev)
    /\ [][DIALECT_DICTIONARY' = DIALECT_DICTIONARY]_vars

C9_Witness ==
    /\ out = "result"
    /\ prev /= NoRun
    /\ prev.sentences = user_sentences
    /\ Len(user_sentences) = 2

\* C10: the selected canton is empty or a canton of the dictionary; a
\* choose_canton call alone decides it, an invalid selection clearing an earlier
\* valid one, after which translation mode reports that no canton is chosen and
\* shows no reference sentence; no other menu choice changes it.
C10_SelectionFollowsLastChoice ==
    /\ [](current_canton \in {""} \cup CantonSet)
    /\ []((out \in InvalidSelection) => current_canton = "")
    /\ []((out = "selected") => current_canton \in CantonSet)
    /\ [][/\ (out' \notin ChooseMessages) => current_canton' = current_canton
          /\ (pc = "menu" /\ out \in InvalidSelection
                /\ out' \in {"no_canton", "translation"}) =>
                (out' = "no_canton" /\ shown' = <<>>)
          /\ (out' = "no_canton") => current_canton' = ""
          /\ (out' = "translation") =>
                (current_canton' /= "" /\ Len(shown') = Len(HIGH_GERMAN_SENTENCES))]_vars

C10_Witness ==
    /\ out \in InvalidSelection
    /\ replaced \in CantonSet
    /\ current_canton = ""
=============================================================================
